---- MODULE Spec2Model ----
(***************************************************************************)
(* Model of visualize_network.py: one run of the Streamlit script.  The    *)
(* run reads the sidebar settings, loads a graph through one of the two    *)
(* adapters (load_graph_data_neo4j, load_graph_data_sql) inside the        *)
(* module-level try/except, and then renders the loaded elements with the  *)
(* styles of create_dynamic_styles.                                        *)
(*                                                                         *)
(* Python values that live in dicts are tagged pairs, so that values of    *)
(* different Python types can sit in one dict and be compared:             *)
(*   <<"str", s>>, <<"int", i>>, <<"none">>, <<"list", seq>>,              *)
(*   <<"map", function>>, <<"temporal", iso>>.                             *)
(* An optional value (Python None or an object) is <<>> or <<object>>.     *)
(***************************************************************************)
EXTENDS Integers, Sequences, FiniteSets, TLC

\* ---------------------------------------------------------------- bounds
\* records the Cypher result may deliver in one load
MaxRecords == 3
\* rows each of the two SQL result frames may hold
MaxRows == 3
\* nodes of an element set handed directly to create_dynamic_styles
MaxStyleNodes == 6

\* ------------------------------------------------------- program constants
DEFAULT_DISPLAY_PROPERTY == "full_name"
DEFAULT_NODE_LABEL == "Observation"
DEFAULT_NODE_ID_COL == "Node_ID"
DEFAULT_NODE_LABEL_COL == "Label"
DEFAULT_NODE_NAME_COL == "Name"
DEFAULT_REL_SOURCE_COL == "Source_ID"
DEFAULT_REL_TARGET_COL == "Target_ID"
DEFAULT_REL_TYPE_COL == "Relationship_Type"
default_colors == <<"#2A629A", "#FF7F3E", "#C0C0C0", "#008000", "#800080">>

\* ------------------------------------------------------------ Python values
Str(s) == <<"str", s>>
Num(i) == <<"int", i>>
PyNone == <<"none">>
List(seq) == <<"list", seq>>
Map(f) == <<"map", f>>
Temporal(iso) == <<"temporal", iso>>

None == <<>>
Some(x) == <<x>>

EmptyDict == [k \in {} |-> PyNone]

\* d.get(k, default)
Get(d, k, default) == IF k \in DOMAIN d THEN d[k] ELSE default

\* d[k] = v
Put(d, k, v) == (k :> v) @@ d

\* truth value of a Python value (the operand of `or`)
Truthy(v) ==
  CASE v[1] = "str" -> v[2] # ""
    [] v[1] = "int" -> v[2] # 0
    [] v[1] = "none" -> FALSE
    [] v[1] = "list" -> v[2] # <<>>
    [] v[1] = "map" -> DOMAIN v[2] # {}
    [] v[1] = "temporal" -> TRUE

Digits == <<"0", "1", "2", "3", "4", "5", "6", "7", "8", "9">>

RECURSIVE IntStr(_)
\* str(i) of a non-negative int
IntStr(i) == IF i < 10 THEN Digits[i + 1] ELSE IntStr(i \div 10) \o Digits[(i % 10) + 1]

\* str(v) of the values an id, source or target cell can hold
PyStr(v) ==
  CASE v[1] = "str" -> v[2]
    [] v[1] = "int" -> IntStr(v[2])
    [] v[1] = "none" -> "None"
    [] v[1] = "temporal" -> v[2]

RECURSIVE Join(_, _)
\* sep.join(seq)
Join(sep, seq) ==
  IF seq = <<>> THEN ""
  ELSE IF Len(seq) = 1 THEN seq[1]
  ELSE seq[1] \o sep \o Join(sep, Tail(seq))

\* the orders in which list(frozenset) may enumerate a set
Orders(S) == {q \in [1..Cardinality(S) -> S] : \A i, j \in DOMAIN q : i # j => q[i] # q[j]}

\* code points of the strings that occur as labels; Python orders str by them
CodePoints(s) ==
  CASE s = "Person" -> <<80, 101, 114, 115, 111, 110>> []
       s = "Company" -> <<67, 111, 109, 112, 97, 110, 121>> []
       s = "Event" -> <<69, 118, 101, 110, 116>> []
       s = "Location" -> <<76, 111, 99, 97, 116, 105, 111, 110>> []
       s = "Account" -> <<65, 99, 99, 111, 117, 110, 116>> []
       s = "Device" -> <<68, 101, 118, 105, 99, 101>> []
       s = "Observation" -> <<79, 98, 115, 101, 114, 118, 97, 116, 105, 111, 110>> []
       s = "Event:Meeting" -> <<69, 118, 101, 110, 116, 58, 77, 101, 101, 116, 105, 110, 103>> []
       s = "Meeting:Event" -> <<77, 101, 101, 116, 105, 110, 103, 58, 69, 118, 101, 110, 116>> []
       s = "KNOWS" -> <<75, 78, 79, 87, 83>> []
       s = "ATTENDED" -> <<65, 84, 84, 69, 78, 68, 69, 68>> []
       s = "OWNS" -> <<79, 87, 78, 83>> []
       s = "RELATED" -> <<82, 69, 76, 65, 84, 69, 68>> []
       s = "None" -> <<78, 111, 110, 101>> []
       s = "0" -> <<48>> []
       s = "1" -> <<49>> []
       s = "2" -> <<50>> []
       s = "3" -> <<51>> []
       s = "4" -> <<52>> []
       s = "5" -> <<53>> []
       s = "6" -> <<54>> []
       s = "7" -> <<55>> []
       s = "8" -> <<56>> []
       s = "9" -> <<57>> []
       s = "edge_0" -> <<101, 100, 103, 101, 95, 48>> []
       s = "edge_1" -> <<101, 100, 103, 101, 95, 49>> []
       s = "edge_2" -> <<101, 100, 103, 101, 95, 50>> []
       s = "edge_3" -> <<101, 100, 103, 101, 95, 51>> []
       s = "edge_4" -> <<101, 100, 103, 101, 95, 52>> []
       s = "edge_5" -> <<101, 100, 103, 101, 95, 53>> []
       s = "edge_6" -> <<101, 100, 103, 101, 95, 54>> []
       s = "edge_7" -> <<101, 100, 103, 101, 95, 55>> []
       s = "edge_8" -> <<101, 100, 103, 101, 95, 56>> []
       s = "edge_9" -> <<101, 100, 103, 101, 95, 57>>

RECURSIVE SeqLess(_, _)
\* lexicographic order of two code point sequences
SeqLess(a, b) ==
  IF b = <<>> THEN FALSE
  ELSE IF a = <<>> THEN TRUE
  ELSE IF a[1] # b[1] THEN a[1] < b[1]
  ELSE SeqLess(Tail(a), Tail(b))

\* a < b for two str values
StrLess(a, b) == SeqLess(CodePoints(a[2]), CodePoints(b[2]))

RECURSIVE Sorted(_)
\* sorted(S) of a set of str values
Sorted(S) ==
  IF S = {} THEN <<>>
  ELSE LET m == CHOOSE x \in S : \A y \in S \ {x} : StrLess(x, y)
       IN <<m>> \o Sorted(S \ {m})

\* ------------------------------------------------- create_dynamic_styles
\* a plausible slip: the palette index is not wrapped at the palette's length
StyleColorUnwrapped(i) == default_colors[IF i < Len(default_colors) THEN i + 1 ELSE Len(default_colors)]

\* default_colors[i % len(default_colors)], i zero-based
StyleColor(i) == default_colors[(i % Len(default_colors)) + 1]

NodeStyle(label, color, caption, icon) ==
  [label |-> label, color |-> color, caption |-> caption, icon |-> icon]

EdgeStyle(label, caption, directed) ==
  [label |-> label, caption |-> caption, directed |-> directed]

\* the labels of a list of {"data": ...} elements, with the .get default
LabelSet(els, default) ==
  {Get(els[i].data, "label", Str(default)) : i \in 1..Len(els)}

create_dynamic_styles(el) ==
  LET node_labels == LabelSet(el.nodes, DEFAULT_NODE_LABEL)
      rel_types == LabelSet(el.edges, "RELATED")
      sn == Sorted(node_labels)
      se == Sorted(rel_types)
  IN [node_styles |-> [i \in 1..Len(sn) |-> NodeStyle(sn[i], StyleColor(i - 1), "name", "circle")],
      edge_styles |-> [i \in 1..Len(se) |-> EdgeStyle(se[i], PyNone, TRUE)]]

\* ------------------------------------------------------ the graph store
\* a neo4j Node: .id, .labels (a frozenset), and its properties
NodeObj(id, labels, props) == [id |-> id, labels |-> labels, props |-> props]

\* a neo4j Relationship, or the plain triple some client versions return
RelObj(id, type, start, end, props) ==
  [shape |-> "rel", id |-> id, type |-> type, start |-> start, end |-> end, props |-> props]

RelTuple(sprops, type, eprops) == [shape |-> "tuple", items |-> <<sprops, type, eprops>>]

Ann == NodeObj(0, {"Person"}, [full_name |-> Str("Ann")])
\* node 0 read again after a concurrently committed write (read-committed)
AnnRenamed == NodeObj(0, {"Person"}, [full_name |-> Str("Anna")])
\* no labels, and a property that is called like a derived field
Unlabelled == NodeObj(1, {}, [label |-> Str("VIP")])
Meeting ==
  NodeObj(2, {"Event", "Meeting"},
          [when |-> Temporal("2024-05-01T10:00:00"),
           tags |-> List(<<Str("q2"), Temporal("2024-05-02")>>),
           room |-> Map([since |-> Temporal("2024-01-01")])])

GraphNodes == {Ann, AnnRenamed, Unlabelled, Meeting}

\* relationship 0 has the native id of node 0
Knows == RelObj(0, "KNOWS", 0, 1, [since |-> Temporal("2020-01-01")])
Attended == RelObj(7, "ATTENDED", 0, 2, EmptyDict)
KnowsTriple == RelTuple([full_name |-> Str("Ann")], "KNOWS", [label |-> Str("VIP")])

GraphRels == {Knows, Attended, KnowsTriple}

\* the records a query can bind to n, r, m: the two ends of r in either order
Records ==
  {rec \in [n : GraphNodes, r : GraphRels, m : GraphNodes] :
     IF rec.r.shape = "rel"
       THEN \/ rec.n.id = rec.r.start /\ rec.m.id = rec.r.end
            \/ rec.n.id = rec.r.end /\ rec.m.id = rec.r.start
       ELSE rec.n = Ann /\ rec.m = Unlabelled}

DisplayProperties == {DEFAULT_DISPLAY_PROPERTY, "id", "labels", "label", "name"}

\* --------------------------------------------------------------- state
VARIABLES
  data_source,       \* the selectbox: "Neo4j" or "Relational DB"
  display_property,  \* sidebar text input
  mapping,           \* the six column names of the sidebar
  pc,                \* position of the script
  call_exit,         \* how the adapter call left: "none", "returned", "raised"
  driver_open,       \* the neo4j driver has been created and not closed
  session_open,      \* the neo4j session has been opened and not closed
  fetched,           \* records / node rows taken from the result so far
  record,            \* loop variable of load_graph_data_neo4j
  nodes_dict,        \* ordered dict: sequence of [k |-> id, v |-> data]
  edges_list,
  node_cols,         \* columns of nodes_df
  rel_cols,          \* columns of relationships_df
  row,               \* loop variable of load_graph_data_sql
  idx,               \* index of the next relationship row
  nodes_seen,
  sql_elements,      \* the local `elements` of load_graph_data_sql
  elements,          \* the module-level `elements`
  banners,           \* st.success / st.error / st.info shown, in order
  styles,            \* what create_dynamic_styles returned
  rendered           \* the elements st_link_analysis was called with

vars ==
  <<data_source, display_property, mapping, pc, call_exit, driver_open, session_open,
    fetched, record, nodes_dict, edges_list, node_cols, rel_cols, row, idx, nodes_seen,
    sql_elements, elements, banners, styles, rendered>>

neo4j_locals == <<driver_open, session_open, fetched, record, nodes_dict, edges_list>>
sql_locals == <<node_cols, rel_cols, row, idx, nodes_seen, sql_elements>>
settings == <<data_source, display_property, mapping>>
output == <<styles, rendered>>

DefaultMapping ==
  [node_id_col |-> DEFAULT_NODE_ID_COL, node_label_col |-> DEFAULT_NODE_LABEL_COL,
   node_name_col |-> DEFAULT_NODE_NAME_COL, rel_source_col |-> DEFAULT_REL_SOURCE_COL,
   rel_target_col |-> DEFAULT_REL_TARGET_COL, rel_type_col |-> DEFAULT_REL_TYPE_COL]

EmptyElements == [nodes |-> <<>>, edges |-> <<>>]

Init ==
  /\ data_source = "Neo4j"
  /\ display_property = DEFAULT_DISPLAY_PROPERTY
  /\ mapping = DefaultMapping
  /\ pc = "sidebar"
  /\ call_exit = "none"
  /\ driver_open = FALSE
  /\ session_open = FALSE
  /\ fetched = 0
  /\ record = None
  /\ nodes_dict = <<>>
  /\ edges_list = <<>>
  /\ node_cols = {}
  /\ rel_cols = {}
  /\ row = None
  /\ idx = 0
  /\ nodes_seen = {}
  /\ sql_elements = EmptyElements
  /\ elements = None
  /\ banners = <<>>
  /\ styles = None
  /\ rendered = None

\* ------------------------------------------------- load_graph_data_neo4j
Keys(nd) == {nd[i].k : i \in 1..Len(nd)}

\* n_data / m_data of one node object
NodeData(obj, labels, dp) ==
  LET n_id == IntStr(obj.id)
      d1 == Put(obj.props, "id", Str(n_id))
      d2 == Put(d1, "labels", List([i \in 1..Len(labels) |-> Str(labels[i])]))
      display_label == IF labels # <<>> THEN Join(":", labels) ELSE DEFAULT_NODE_LABEL
      d3 == Put(d2, "label", Str(display_label))
  IN Put(d3, "name", Get(d3, dp, Str(display_label)))

\* a plausible slip: the `not in nodes_dict` guard is dropped
ProcessNodeUnguarded(nd, obj, labels, dp) ==
  LET n_id == IntStr(obj.id)
  IN IF n_id \in Keys(nd)
       THEN [i \in 1..Len(nd) |->
               IF nd[i].k = n_id THEN [k |-> n_id, v |-> NodeData(obj, labels, dp)] ELSE nd[i]]
       ELSE Append(nd, [k |-> n_id, v |-> NodeData(obj, labels, dp)])

\* "Process node n" / "Process node m"
ProcessNode(nd, obj, labels, dp) ==
  LET n_id == IntStr(obj.id)
  IN IF n_id \notin Keys(nd)
       THEN Append(nd, [k |-> n_id, v |-> NodeData(obj, labels, dp)])
       ELSE nd

\* rel_data of a Relationship object
RelData(r) ==
  LET d1 == Put(r.props, "id", Str(IntStr(r.id)))
      d2 == Put(d1, "source", Str(IntStr(r.start)))
      d3 == Put(d2, "target", Str(IntStr(r.end)))
  IN Put(d3, "label", Str(r.type))

\* the final cytoscape-style elements
BuildElements(nd, el) ==
  [nodes |-> [i \in 1..Len(nd) |-> [data |-> nd[i].v]],
   edges |-> [i \in 1..Len(el) |-> [data |-> el[i]]]]

\* a plausible slip: the adapter swallows the failure and hands back what it has
RaisePartial(src, e) ==
  /\ session_open' = FALSE
  /\ call_exit' = "raised"
  /\ elements' = Some(BuildElements(nodes_dict', edges_list'))
  /\ banners' = Append(banners, [kind |-> "error", src |-> src, e |-> e])
  /\ pc' = "render"

\* an exception leaves the call: the `with` closes the session, the except
\* clause of the dispatch reports it, `elements` keeps the None of line 230
Raise(src, e) ==
  /\ session_open' = FALSE
  /\ call_exit' = "raised"
  /\ elements' = None
  /\ banners' = Append(banners, [kind |-> "error", src |-> src, e |-> e])
  /\ pc' = "render"

ClickNeo4j ==
  /\ pc = "sidebar"
  /\ \E dp \in DisplayProperties : display_property' = dp
  /\ data_source' = "Neo4j"
  /\ pc' = "neo4j_call"
  /\ UNCHANGED <<mapping, call_exit, neo4j_locals, sql_locals, elements, banners, output>>

Neo4jDriver ==
  /\ pc = "neo4j_call"
  /\ driver_open' = TRUE
  /\ pc' = "neo4j_session"
  /\ UNCHANGED <<settings, call_exit, session_open, fetched, record, nodes_dict, edges_list,
                 sql_locals, elements, banners, output>>

Neo4jDriverRaise ==
  /\ pc = "neo4j_call"
  /\ UNCHANGED <<settings, driver_open, fetched, record, nodes_dict, edges_list,
                 sql_locals, output>>
  /\ Raise("Neo4j", "ConfigurationError")

Neo4jRun ==
  /\ pc = "neo4j_session"
  /\ session_open' = TRUE
  /\ pc' = "neo4j_iter"
  /\ UNCHANGED <<settings, call_exit, driver_open, fetched, record, nodes_dict, edges_list,
                 sql_locals, elements, banners, output>>

Neo4jRunRaise ==
  /\ pc = "neo4j_session"
  /\ UNCHANGED <<settings, driver_open, fetched, record, nodes_dict, edges_list,
                 sql_locals, output>>
  /\ Raise("Neo4j", "ServiceUnavailable")

\* one pass of the loop body over the next record
Neo4jRecord ==
  /\ pc = "neo4j_iter"
  /\ fetched < MaxRecords
  /\ \E rec \in Records :
     \E ln \in Orders(rec.n.labels), lm \in Orders(rec.m.labels) :
       /\ record' = Some(rec)
       /\ fetched' = fetched + 1
       /\ nodes_dict' = ProcessNode(ProcessNode(nodes_dict, rec.n, ln, display_property),
                                    rec.m, lm, display_property)
       /\ IF rec.r.shape = "rel"
            THEN /\ edges_list' = Append(edges_list, RelData(rec.r))
                 /\ UNCHANGED <<pc, call_exit, session_open, elements, banners>>
            ELSE /\ edges_list' = edges_list
                 /\ Raise("Neo4j", "AttributeError: 'tuple' object has no attribute 'keys'")
  /\ UNCHANGED <<settings, driver_open, sql_locals, output>>

\* the result stream fails between two records
Neo4jIterRaise ==
  /\ pc = "neo4j_iter"
  /\ UNCHANGED <<settings, driver_open, fetched, record, nodes_dict, edges_list,
                 sql_locals, output>>
  /\ Raise("Neo4j", "ServiceUnavailable")

\* the results are exhausted: leave the `with`, close the driver, return
Neo4jReturn ==
  /\ pc = "neo4j_iter"
  /\ session_open' = FALSE
  /\ driver_open' = FALSE
  /\ call_exit' = "returned"
  /\ elements' = Some(BuildElements(nodes_dict, edges_list))
  /\ banners' = Append(banners, [kind |-> "success", src |-> "Neo4j", e |-> ""])
  /\ pc' = "render"
  /\ UNCHANGED <<settings, fetched, record, nodes_dict, edges_list, sql_locals, output>>

\* --------------------------------------------------- load_graph_data_sql
\* the sidebar's six column names: the defaults, and names the user typed
SqlMappings ==
  {DefaultMapping,
   [DefaultMapping EXCEPT !.node_label_col = "id"],
   [DefaultMapping EXCEPT !.node_name_col = "id"],
   [DefaultMapping EXCEPT !.rel_type_col = "id"],
   [node_id_col |-> "key", node_label_col |-> "kind", node_name_col |-> "title",
    rel_source_col |-> "src", rel_target_col |-> "dst", rel_type_col |-> "rtype"]}

\* the column sets the nodes query and the relationships query may return
NodeColumnSets == {{"Node_ID", "Label", "Name"}, {"Node_ID", "created"}}
RelColumnSets == {{"Source_ID", "Target_ID", "Relationship_Type"}, {"Source_ID", "Target_ID"}}

\* the cells a column may hold (None is a SQL NULL).  Relationship types are
\* str: the styles are only defined for str labels (sorted() compares them)
NodeCell(c) ==
  CASE c = "Node_ID" -> {Num(1), Num(2)}
    [] c = "Label" -> {Str("Person"), PyNone}
    [] c = "Name" -> {Str("Ann"), Str("Bob")}
    [] c = "created" -> {Temporal("2024-05-01 10:00:00")}

RelCell(c) ==
  CASE c = "Source_ID" -> {Num(1)}
    [] c = "Target_ID" -> {Num(2)}
    [] c = "Relationship_Type" -> {Str("KNOWS"), Str("OWNS")}

\* row.to_dict() of the rows a frame with these columns may hold
NodeRows(cols) ==
  {r \in [cols -> UNION {NodeCell(c) : c \in cols}] : \A c \in cols : r[c] \in NodeCell(c)}

RelRows(cols) ==
  {r \in [cols -> UNION {RelCell(c) : c \in cols}] : \A c \in cols : r[c] \in RelCell(c)}

\* node_data of one node row, lines 175-187
SqlNodeData(r, m) ==
  LET node_id == PyStr(Get(r, m.node_id_col, PyNone))
      d1 == Put(r, "id", Str(node_id))
      got == Get(d1, m.node_label_col, Str(""))
      node_label == IF Truthy(got) THEN got ELSE Str(DEFAULT_NODE_LABEL)
      d2 == Put(d1, "label", node_label)
  IN Put(d2, "name", Get(d2, m.node_name_col, node_label))

\* edge_data of the relationship row with index i, lines 193-197
SqlEdgeData(r, i, m) ==
  LET d1 == Put(r, "id", Str("edge_" \o IntStr(i)))
      d2 == Put(d1, "source", Str(PyStr(Get(d1, m.rel_source_col, PyNone))))
      d3 == Put(d2, "target", Str(PyStr(Get(d2, m.rel_target_col, PyNone))))
  IN Put(d3, "label", Get(d3, m.rel_type_col, Str("RELATED")))

ClickSql ==
  /\ pc = "sidebar"
  /\ \E m \in SqlMappings : mapping' = m
  /\ data_source' = "Relational DB"
  /\ pc' = "sql_call"
  /\ UNCHANGED <<display_property, call_exit, neo4j_locals, sql_locals, elements,
                 banners, output>>

\* create_engine and both read_sql_query calls succeed; the rows of the two
\* frames are drawn when the loops reach them
SqlQueries ==
  /\ pc = "sql_call"
  /\ \E nc \in NodeColumnSets, rc \in RelColumnSets : node_cols' = nc /\ rel_cols' = rc
  /\ pc' = "sql_nodes"
  /\ UNCHANGED <<settings, call_exit, neo4j_locals, row, idx, nodes_seen, sql_elements,
                 elements, banners, output>>

\* the engine or one of the two queries fails (a query fails while its rows
\* are read into the frame)
SqlQueriesRaise ==
  /\ pc = "sql_call"
  /\ UNCHANGED <<settings, driver_open, fetched, record, nodes_dict, edges_list,
                 sql_locals, output>>
  /\ Raise("SQL", "OperationalError")

\* one pass of the node loop
SqlNodeRow ==
  /\ pc = "sql_nodes"
  /\ fetched < MaxRows
  /\ \E r \in NodeRows(node_cols) :
       LET node_id == PyStr(Get(r, mapping.node_id_col, PyNone))
       IN /\ row' = Some(r)
          /\ IF node_id \in nodes_seen
               THEN UNCHANGED <<nodes_seen, sql_elements>>
               ELSE /\ nodes_seen' = nodes_seen \cup {node_id}
                    /\ sql_elements' =
                         [sql_elements EXCEPT
                            !.nodes = Append(@, [data |-> SqlNodeData(r, mapping)])]
  /\ fetched' = fetched + 1
  /\ UNCHANGED <<settings, pc, call_exit, driver_open, session_open, record, nodes_dict,
                 edges_list, node_cols, rel_cols, idx, elements, banners, output>>

\* nodes_df is exhausted
SqlNodesEnd ==
  /\ pc = "sql_nodes"
  /\ pc' = "sql_edges"
  /\ UNCHANGED <<settings, call_exit, neo4j_locals, sql_locals, elements, banners, output>>

\* one pass of the relationship loop
SqlEdgeRow ==
  /\ pc = "sql_edges"
  /\ idx < MaxRows
  /\ \E r \in RelRows(rel_cols) :
       /\ row' = Some(r)
       /\ sql_elements' =
            [sql_elements EXCEPT !.edges = Append(@, [data |-> SqlEdgeData(r, idx, mapping)])]
  /\ idx' = idx + 1
  /\ UNCHANGED <<settings, pc, call_exit, neo4j_locals, node_cols, rel_cols, nodes_seen,
                 elements, banners, output>>

\* relationships_df is exhausted: return elements
SqlReturn ==
  /\ pc = "sql_edges"
  /\ call_exit' = "returned"
  /\ elements' = Some(sql_elements)
  /\ banners' = Append(banners, [kind |-> "success", src |-> "SQL", e |-> ""])
  /\ pc' = "render"
  /\ UNCHANGED <<settings, neo4j_locals, sql_locals, output>>

\* ------------------------------------------------------------- the script
\* the load button was not pressed in this run
NoClick ==
  /\ pc = "sidebar"
  /\ \E ds \in {"Neo4j", "Relational DB"} : data_source' = ds
  /\ pc' = "render"
  /\ UNCHANGED <<display_property, mapping, call_exit, neo4j_locals, sql_locals,
                 elements, banners, output>>

\* lines 253-263
Render ==
  /\ pc = "render"
  /\ IF elements # None
       THEN /\ styles' = Some(create_dynamic_styles(elements[1]))
            /\ rendered' = elements
            /\ banners' = banners
       ELSE /\ banners' = Append(banners, [kind |-> "info", src |-> "", e |-> ""])
            /\ UNCHANGED output
  /\ pc' = "done"
  /\ UNCHANGED <<settings, call_exit, neo4j_locals, sql_locals, elements>>

Next ==
  \/ ClickNeo4j \/ Neo4jDriver \/ Neo4jDriverRaise \/ Neo4jRun \/ Neo4jRunRaise
  \/ Neo4jRecord \/ Neo4jIterRaise \/ Neo4jReturn
  \/ ClickSql \/ SqlQueries \/ SqlQueriesRaise \/ SqlNodeRow \/ SqlNodesEnd
  \/ SqlEdgeRow \/ SqlReturn
  \/ NoClick \/ Render

Spec == Init /\ [][Next]_vars

\* ------------------------------------- create_dynamic_styles on its own
StyleLabels == {"Person", "Company", "Event", "Location", "Account", "Device"}
StyleRelTypes == {"KNOWS", "OWNS", "RELATED"}

StyleNode(i, l) == [data |-> [id |-> Str(IntStr(i)), label |-> Str(l), name |-> Str(l)]]
StyleEdge(i, l) ==
  [data |-> [id |-> Str("edge_" \o IntStr(i)), source |-> Str("0"), target |-> Str("1"),
             label |-> Str(l)]]

\* element sets as an adapter returns them: node labels q, in the order given
StyleNodesInput(q) ==
  [nodes |-> [i \in 1..Len(q) |-> StyleNode(i, q[i])], edges |-> <<StyleEdge(0, "KNOWS")>>]

\* element sets as an adapter returns them: edge labels q, in the order given
StyleEdgesInput(q) ==
  [nodes |-> <<StyleNode(0, "Person")>>, edges |-> [i \in 1..Len(q) |-> StyleEdge(i, q[i])]]

\* the script at line 253, holding the elements a load returned
InitStyles ==
  /\ data_source = "Neo4j"
  /\ display_property = DEFAULT_DISPLAY_PROPERTY
  /\ mapping = DefaultMapping
  /\ pc = "render"
  /\ call_exit = "returned"
  /\ driver_open = FALSE
  /\ session_open = FALSE
  /\ fetched = 0
  /\ record = None
  /\ nodes_dict = <<>>
  /\ edges_list = <<>>
  /\ node_cols = {}
  /\ rel_cols = {}
  /\ row = None
  /\ idx = 0
  /\ nodes_seen = {}
  /\ sql_elements = EmptyElements
  /\ \/ \E k \in 0..MaxStyleNodes : \E q \in [1..k -> StyleLabels] :
          elements = Some(StyleNodesInput(q))
     \/ \E k \in 0..2 : \E q \in [1..k -> StyleRelTypes] :
          elements = Some(StyleEdgesInput(q))
  /\ banners = <<[kind |-> "success", src |-> "Neo4j", e |-> ""]>>
  /\ styles = None
  /\ rendered = None

NextStyles == Render

SpecStyles == InitStyles /\ [][NextStyles]_vars

\* ------------------------------------------------------------ properties
IsNeo4j == data_source = "Neo4j"
IsSql == data_source = "Relational DB"

\* the node data collected so far by the running (or finished) load
LoadNodes ==
  IF IsNeo4j THEN [i \in 1..Len(nodes_dict) |-> nodes_dict[i].v]
  ELSE [i \in 1..Len(sql_elements.nodes) |-> sql_elements.nodes[i].data]

\* the edge data collected so far
LoadEdges ==
  IF IsNeo4j THEN edges_list
  ELSE [i \in 1..Len(sql_elements.edges) |-> sql_elements.edges[i].data]

\* what a completed load returns from the collected data
FullSet == IF IsNeo4j THEN BuildElements(nodes_dict, edges_list) ELSE sql_elements

DistinctIds(ds) == \A i, j \in 1..Len(ds) : i # j => ds[i].id # ds[j].id

NoDuplicateNodes ==
  /\ DistinctIds(LoadNodes)
  /\ elements # None =>
       DistinctIds([i \in 1..Len(elements[1].nodes) |-> elements[1].nodes[i].data])

\* a step of a load keeps every node already stored, at its place, as it is
StoredNodesKept ==
  /\ Len(LoadNodes') >= Len(LoadNodes)
  /\ \A i \in 1..Len(LoadNodes) : LoadNodes'[i] = LoadNodes[i]

\* C1: in one load by either adapter the nodes collection never holds two
\* nodes with the same id, and a later occurrence of a stored identity adds
\* nothing and changes nothing in the node stored at its first occurrence.
C1_NodeIdentity == [][NoDuplicateNodes' /\ StoredNodesKept]_vars

\* the graph adapter met node 0 again with another full_name and kept "Ann"
C1_Witness ==
  /\ IsNeo4j
  /\ record # None
  /\ record[1].n = AnnRenamed
  /\ Len(nodes_dict) = 2
  /\ nodes_dict[1].k = "0"
  /\ nodes_dict[1].v.full_name = Str("Ann")

\* the relational adapter met Node_ID 1 again in a second row and skipped it
C1_WitnessSql ==
  /\ IsSql
  /\ fetched = 2
  /\ Len(sql_elements.nodes) = 1
  /\ row # None
  /\ sql_elements.nodes[1].data.id = Str("1")
  /\ "Name" \in DOMAIN row[1]
  /\ sql_elements.nodes[1].data.Name # row[1].Name

\* C2: a load that fails reports the failure and leaves the caller without
\* any element set; the renderer is called only after a load that returned,
\* and then with the whole set.
C2_AtomicLoad ==
  /\ call_exit = "raised" =>
       /\ elements = None
       /\ rendered = None
       /\ styles = None
       /\ \E i \in 1..Len(banners) : banners[i].kind = "error"
  /\ elements # None => call_exit = "returned" /\ elements = Some(FullSet)
  /\ rendered # None => call_exit = "returned" /\ rendered = Some(FullSet)

\* a load failed after nodes had been built, and the script ran to its end
C2_Witness ==
  /\ call_exit = "raised"
  /\ pc = "done"
  /\ Len(nodes_dict) > 0
  /\ Len(edges_list) > 0

\* C3: every session and connection the graph adapter acquired is released
\* when the call has exited, however it exited.
C3_ResourcesReleased ==
  (IsNeo4j /\ call_exit # "none") => (~driver_open /\ ~session_open)

RECURSIVE Serializable(_)
\* json.dumps accepts the value: no temporal object at any depth
Serializable(v) ==
  CASE v[1] = "temporal" -> FALSE
    [] v[1] = "list" -> \A i \in 1..Len(v[2]) : Serializable(v[2][i])
    [] v[1] = "map" -> \A k \in DOMAIN v[2] : Serializable(v[2][k])
    [] OTHER -> TRUE

AllSerializable(els) ==
  \A i \in 1..Len(els) : \A k \in DOMAIN els[i].data : Serializable(els[i].data[k])

\* C4: every property value of a returned element set is JSON-serializable;
\* temporal values appear as ISO strings, at any depth.
C4_Serializable ==
  elements # None => AllSerializable(elements[1].nodes) /\ AllSerializable(elements[1].edges)

\* C5: in a set of the graph adapter no edge id equals a node id.
C5_EdgeIdNotNodeId ==
  (IsNeo4j /\ elements # None) =>
    \A i \in 1..Len(elements[1].edges), j \in 1..Len(elements[1].nodes) :
      elements[1].edges[i].data.id # elements[1].nodes[j].data.id

\* C6: the edge ids of a returned set are pairwise different, and the
\* relational adapter's i-th edge (zero-based) has id edge_i.
C6_EdgeIdsUnique ==
  elements # None =>
    /\ DistinctIds([i \in 1..Len(elements[1].edges) |-> elements[1].edges[i].data])
    /\ IsSql =>
         \A i \in 1..Len(elements[1].edges) :
           elements[1].edges[i].data.id = Str("edge_" \o IntStr(i - 1))

\* C7: a record whose relationship is a plain triple does not fail the load:
\* an edge labelled with the triple's middle element is appended.
C7_TripleFallback ==
  (IsNeo4j /\ record # None /\ record[1].r.shape = "tuple") =>
    /\ call_exit # "raised"
    /\ Len(edges_list) > 0
    /\ edges_list[Len(edges_list)].label = Str(record[1].r.items[2])
    /\ {"id", "source", "target", "label"} \subseteq DOMAIN edges_list[Len(edges_list)]

\* C8: in the relational adapter an absent mapped column never fails the load
\* and a default is substituted: "RELATED" for the relationship type,
\* "Observation" for the node label.
C8_MissingColumnDefaults ==
  (IsSql /\ pc \in {"sql_nodes", "sql_edges", "render", "done"} /\ node_cols # {}) =>
    /\ call_exit # "raised"
    /\ mapping.node_label_col \notin node_cols =>
         \A i \in 1..Len(LoadNodes) : LoadNodes[i].label = Str(DEFAULT_NODE_LABEL)
    /\ mapping.rel_type_col \notin rel_cols =>
         \A i \in 1..Len(LoadEdges) : LoadEdges[i].label = Str("RELATED")

\* the properties / columns of the source record a node stored in this step was built from
NewNodeSource(k) ==
  IF IsNeo4j
    THEN IF IntStr(record'[1].n.id) = k THEN DOMAIN record'[1].n.props
         ELSE DOMAIN record'[1].m.props
    ELSE DOMAIN row'[1]

ConfiguredDisplayName == IF IsNeo4j THEN display_property ELSE mapping.node_name_col

\* C9: a node whose source record does not carry the configured display
\* property / column gets name = label, whatever the configured name is.
C9_DisplayNameFallback ==
  [][\A i \in (Len(LoadNodes) + 1)..Len(LoadNodes') :
       ConfiguredDisplayName \notin NewNodeSource(LoadNodes'[i].id[2])
         => LoadNodes'[i].name = LoadNodes'[i].label]_vars

\* labels of the elements, read directly
LabelsOf(els) == {els[i].data.label : i \in 1..Len(els)}

\* zero-based position of a label in lexicographic order
Rank(l, L) == Cardinality({x \in L : StrLess(x, l)})

\* C10: one node style per distinct node label and one edge style per
\* distinct edge label, in lexicographic label order, the node style at
\* sorted position i coloured palette[i mod 5]; a function of the label sets.
C10_Styles ==
  styles # None =>
    LET ns == styles[1].node_styles
        es == styles[1].edge_styles
        NL == LabelsOf(rendered[1].nodes)
        EL == LabelsOf(rendered[1].edges)
    IN /\ Len(ns) = Cardinality(NL)
       /\ Len(es) = Cardinality(EL)
       /\ \A l \in NL :
            ns[Rank(l, NL) + 1] =
              NodeStyle(l, default_colors[(Rank(l, NL) % 5) + 1], "name", "circle")
       /\ \A l \in EL : es[Rank(l, EL) + 1] = EdgeStyle(l, PyNone, TRUE)

\* six labels given in unsorted order: the sixth style wraps to palette[0]
C10_Witness ==
  /\ styles # None
  /\ Len(styles[1].node_styles) = 6
  /\ rendered[1].nodes[1].data.label = Str("Person")
  /\ styles[1].node_styles[1].label = Str("Account")
  /\ styles[1].node_styles[6].label = Str("Person")
  /\ styles[1].node_styles[6].color = styles[1].node_styles[1].color

====
